---- MODULE Spec2Model ----
(***************************************************************************)
(* A model of src/data_processing.py: the loaders of the Brent price file  *)
(* and of the event file, the return and volatility transforms, the date   *)
(* range filter, prepare_modeling_data and get_data_summary.               *)
(*                                                                         *)
(* Values.  A float is a record [k, num, den]: k = "fin" is num/den,       *)
(* k = "sqrt" is the square root of num/den, k = "nan", "+inf", "-inf" are *)
(* the IEEE specials.  A timestamp is <<isNaT, ordinal>>, the ordinal      *)
(* being the proleptic Gregorian day number.  A date cell of a file is the *)
(* text as written: [fmt, y, m, d], fmt naming the layout of the text      *)
(* ("" is an empty cell).                                                  *)
(***************************************************************************)
EXTENDS Integers, Sequences, FiniteSets, TLC

VARIABLES fs, call, raised, steps, df, series, summary

vars == <<fs, call, raised, steps, df, series, summary>>

-----------------------------------------------------------------------------
(* Bounds of the model.                                                    *)

\* rows of a generated price or event file
MaxRows == 3
\* length of a generated price / return sequence
MaxLen == 3
\* largest window size tried on the short sequences
MaxWindow == 3
\* rows of the generated daily price file, and length of the long sequences
MaxDays == 32

-----------------------------------------------------------------------------
(* Floats.                                                                 *)

NaN == [k |-> "nan", num |-> 0, den |-> 1]
PosInf == [k |-> "+inf", num |-> 0, den |-> 1]
NegInf == [k |-> "-inf", num |-> 0, den |-> 1]
Fin(n, d) == [k |-> "fin", num |-> n, den |-> d]
Num(n) == Fin(n, 1)

\* pd.isna / pd.notna
IsNA(x) == x.k = "nan"
NotNA(x) == x.k # "nan"
\* np.isinf / np.isfinite
IsInf(x) == x.k \in {"+inf", "-inf"}
IsFinite(x) == x.k \in {"fin", "sqrt"}

\* a - b in IEEE arithmetic, for finite operands of one denominator
FSub(a, b) ==
    IF IsNA(a) \/ IsNA(b) THEN NaN
    ELSE IF IsInf(a) /\ IsInf(b) THEN (IF a.k = b.k THEN NaN ELSE a)
    ELSE IF IsInf(a) THEN a
    ELSE IF IsInf(b) THEN (IF b.k = "+inf" THEN NegInf ELSE PosInf)
    ELSE Fin(a.num - b.num, a.den)

\* a / b - 1 in IEEE arithmetic, for a and b whole numbers (den = 1)
FRatioMinusOne(a, b) ==
    IF IsNA(a) \/ IsNA(b) THEN NaN
    ELSE IF b.num = 0
         THEN (IF a.num = 0 THEN NaN ELSE IF a.num > 0 THEN PosInf ELSE NegInf)
    ELSE Fin(a.num - b.num, b.num)

\* np.log on the prices of the model, in fixed point: 1000 * ln(p), rounded
NpLog(x) ==
    IF IsNA(x) THEN NaN
    ELSE IF x.num < 0 THEN NaN
    ELSE IF x.num = 0 THEN NegInf
    ELSE CASE x.num = 100 -> Fin(4605, 1000)
           [] x.num = 105 -> Fin(4654, 1000)
           [] x.num = 110 -> Fin(4700, 1000)

-----------------------------------------------------------------------------
(* Sequences.                                                              *)

Range(s) == {s[i] : i \in DOMAIN s}

RECURSIVE SeqsUpTo(_, _)
\* the sequences over S of length at most n
SeqsUpTo(S, n) ==
    IF n = 0 THEN {<<>>}
    ELSE LET shorter == SeqsUpTo(S, n - 1)
         IN shorter \cup {Append(s, x) : s \in {t \in shorter : Len(t) = n - 1}, x \in S}

\* the permutations of 1..n
Perms(n) == {p \in [1..n -> 1..n] : \A i, j \in 1..n : i # j => p[i] # p[j]}

\* the subsequence of s at the positions in keep, from position i on, in order
RECURSIVE SelectIdx(_, _, _)
SelectIdx(s, keep, i) ==
    IF i > Len(s) THEN <<>>
    ELSE (IF i \in keep THEN <<s[i]>> ELSE <<>>) \o SelectIdx(s, keep, i + 1)

-----------------------------------------------------------------------------
(* Dates.                                                                  *)

NaT == <<TRUE, 0>>
Ts(ord) == <<FALSE, ord>>
IsNaT(t) == t[1]
Ord(t) == t[2]

\* Timestamp comparisons: every comparison with NaT is False
TsLE(a, b) == ~IsNaT(a) /\ ~IsNaT(b) /\ Ord(a) <= Ord(b)
TsGE(a, b) == TsLE(b, a)
TsLT(a, b) == ~IsNaT(a) /\ ~IsNaT(b) /\ Ord(a) < Ord(b)

IsLeap(y) == (y % 4 = 0) /\ ((y % 100 # 0) \/ (y % 400 = 0))

DaysInMonth(y, m) ==
    IF m = 2 THEN (IF IsLeap(y) THEN 29 ELSE 28)
    ELSE IF m \in {4, 6, 9, 11} THEN 30 ELSE 31

RECURSIVE DaysBeforeMonth(_, _)
DaysBeforeMonth(y, m) ==
    IF m = 1 THEN 0 ELSE DaysBeforeMonth(y, m - 1) + DaysInMonth(y, m - 1)

\* the day number of a calendar date (datetime.date.toordinal)
ToOrdinal(y, m, d) ==
    LET p == y - 1
    IN 365 * p + (p \div 4) - (p \div 100) + (p \div 400) + DaysBeforeMonth(y, m) + d

ValidYMD(y, m, d) == m \in 1..12 /\ d >= 1 /\ d <= DaysInMonth(y, m)

\* the century that strptime's %y gives a two-digit year
PivotYear(yy) == IF yy <= 68 THEN 2000 + yy ELSE 1900 + yy

DateCell(fmt, y, m, d) == [fmt |-> fmt, y |-> y, m |-> m, d |-> d]
EmptyCell == DateCell("", 0, 0, 0)

\* whether the cell's text matches format='%d-%b-%y' (an empty cell is NaN)
MatchesStrict(c) ==
    c.fmt = "%d-%b-%y" /\ c.y \in 0..99 /\ ValidYMD(PivotYear(c.y), c.m, c.d)

\* pd.to_datetime(cell, format='%d-%b-%y') on a cell it accepts
ToDatetimeStrict(c) ==
    IF c.fmt = "" THEN NaT ELSE Ts(ToOrdinal(PivotYear(c.y), c.m, c.d))

\* whether the general parser of pd.to_datetime accepts the cell's text
MatchesLoose(c) ==
    \/ c.fmt = "%Y-%m-%d" /\ ValidYMD(c.y, c.m, c.d)
    \/ MatchesStrict(c)

\* pd.to_datetime(cell) on a cell it accepts
ToDatetimeLoose(c) ==
    IF c.fmt = "" THEN NaT
    ELSE IF c.fmt = "%Y-%m-%d" THEN Ts(ToOrdinal(c.y, c.m, c.d))
    ELSE ToDatetimeStrict(c)

\* pd.Timestamp('YYYY-MM-DD'): midnight of that day
Timestamp(c) == Ts(ToOrdinal(c.y, c.m, c.d))

-----------------------------------------------------------------------------
(* Files, tables and errors.                                               *)

\* a path that does not exist
NoFile == [exists |-> FALSE, header |-> {}, rows |-> <<>>]
\* a delimited text file: its header row and its data rows (column -> cell)
CsvFile(header, rows) == [exists |-> TRUE, header |-> header, rows |-> rows]

\* a DataFrame: the index column ("" is the default RangeIndex), the data
\* columns, and the rows (column -> value; the index value under its name)
Table(index, cols, rows) == [index |-> index, cols |-> cols, rows |-> rows]
NoTable == Table("none", {}, <<>>)

NoError == [type |-> "", msg |-> ""]
FileNotFoundError == [type |-> "FileNotFoundError", msg |-> "File not found"]
SchemaError ==
    [type |-> "ValueError", msg |-> "CSV must contain 'Date' and 'Price' columns"]
ParseError == [type |-> "ValueError", msg |-> "time data doesn't match format"]
KeyError == [type |-> "KeyError", msg |-> "Date"]

\* a bound of filter_date_range: None, or the text given
NoneBound == DateCell("None", 0, 0, 0)
\* Python truthiness of an Optional[str]: None and '' are false
Truthy(b) == b.fmt \notin {"None", ""}

\* the dictionary of a summary not yet computed
NoSummary == <<>>

NoCall ==
    [op |-> "", path |-> "", table |-> NoTable, input |-> <<>>, start |-> NoneBound,
     end |-> NoneBound, flag |-> FALSE, pad |-> FALSE, window |-> 0]

\* the row with its Date cell replaced by the parsed timestamp
WithDate(row, t) == [c \in DOMAIN row |-> IF c = "Date" THEN t ELSE row[c]]

\* the order of sort_values('Date'): ascending, NaT last
SortKeyLE(a, b) == IsNaT(b) \/ (~IsNaT(a) /\ Ord(a) <= Ord(b))

\* sort_values on a descending key, as a sort called with ascending=False
SortIndexersDescending(rows) ==
    {p \in Perms(Len(rows)) :
        \A i, j \in 1..Len(rows) : i < j => SortKeyLE(rows[p[j]].Date, rows[p[i]].Date)}

RECURSIVE PermSeqs(_)
\* the orders in which the members of S can be listed
PermSeqs(S) ==
    IF S = {} THEN {<<>>}
    ELSE UNION {{<<x>> \o p : p \in PermSeqs(S \ {x})} : x \in S}

RECURSIVE SortIndexersFrom(_, _)
\* the sorted orders of the rows at the positions left: the rows of the least
\* date in any order, then the others
SortIndexersFrom(rows, left) ==
    IF left = {} THEN {<<>>}
    ELSE LET least == {i \in left : \A j \in left : SortKeyLE(rows[i].Date, rows[j].Date)}
         IN {g \o rest : g \in PermSeqs(least), rest \in SortIndexersFrom(rows, left \ least)}

\* the indexers sort_values('Date') can return.  The default kind is
\* 'quicksort', which is not stable: rows of equal date come out in an order
\* the sort does not fix, so every ordering that is sorted by date is an outcome.
SortIndexers(rows) == SortIndexersFrom(rows, DOMAIN rows)

\* the rows in the order of the indexer, without those whose date an earlier
\* row of the output has (a drop_duplicates('Date') after the sort)
TakeDropDuplicates(rows, p) ==
    SelectIdx([i \in 1..Len(rows) |-> rows[p[i]]],
              {i \in 1..Len(rows) : \A j \in 1..(i - 1) : rows[p[j]].Date # rows[p[i]].Date}, 1)

\* df.iloc[indexer]
Take(rows, p) == [i \in 1..Len(rows) |-> rows[p[i]]]

\* what a call of a loader ends in: the error raised, the steps taken, the table
Outcome(error, taken, table) == [raised |-> error, steps |-> taken, df |-> table]

\* the rows with their Date cells parsed by to_datetime, in the price format
\* (strict) or by the general parser
ParsedRows(rows, strict) ==
    [i \in DOMAIN rows |->
        WithDate(rows[i], IF strict THEN ToDatetimeStrict(rows[i].Date)
                          ELSE ToDatetimeLoose(rows[i].Date))]

\* a loader that reads the file without asking first whether the path exists
BrentPricesNoExistsCheck(f) ==
    IF ~f.exists THEN {Outcome(FileNotFoundError, <<"read_csv">>, NoTable)}
    ELSE IF "Date" \notin f.header \/ "Price" \notin f.header
    THEN {Outcome(SchemaError, <<"read_csv", "columns">>, NoTable)}
    ELSE IF \E i \in DOMAIN f.rows : f.rows[i].Date.fmt # "" /\ ~MatchesStrict(f.rows[i].Date)
    THEN {Outcome(ParseError, <<"read_csv", "columns", "to_datetime">>, NoTable)}
    ELSE {Outcome(NoError, <<"read_csv", "columns", "to_datetime", "sort_values", "set_index">>,
                  Table("Date", f.header \ {"Date"}, Take(ParsedRows(f.rows, TRUE), p))) :
             p \in SortIndexers(ParsedRows(f.rows, TRUE))}

\* a loader that parses the dates before it validates the columns
BrentPricesParseFirst(f) ==
    IF ~f.exists THEN {Outcome(FileNotFoundError, <<"exists">>, NoTable)}
    ELSE IF "Date" \notin f.header
    THEN {Outcome(KeyError, <<"exists", "read_csv", "to_datetime">>, NoTable)}
    ELSE IF \E i \in DOMAIN f.rows : f.rows[i].Date.fmt # "" /\ ~MatchesStrict(f.rows[i].Date)
    THEN {Outcome(ParseError, <<"exists", "read_csv", "to_datetime">>, NoTable)}
    ELSE IF "Price" \notin f.header
    THEN {Outcome(SchemaError, <<"exists", "read_csv", "to_datetime", "columns">>, NoTable)}
    ELSE {Outcome(NoError, <<"exists", "read_csv", "to_datetime", "columns", "sort_values", "set_index">>,
                  Table("Date", f.header \ {"Date"}, Take(ParsedRows(f.rows, TRUE), p))) :
             p \in SortIndexers(ParsedRows(f.rows, TRUE))}

\* load_brent_prices on the file a path names: the steps in the order of the
\* code, each failure ending the call
BrentPricesOutcomes(f) ==
    IF ~f.exists THEN {Outcome(FileNotFoundError, <<"exists">>, NoTable)}
    ELSE IF "Date" \notin f.header \/ "Price" \notin f.header
    THEN {Outcome(SchemaError, <<"exists", "read_csv", "columns">>, NoTable)}
    ELSE IF \E i \in DOMAIN f.rows : f.rows[i].Date.fmt # "" /\ ~MatchesStrict(f.rows[i].Date)
    THEN {Outcome(ParseError, <<"exists", "read_csv", "columns", "to_datetime">>, NoTable)}
    ELSE {Outcome(NoError, <<"exists", "read_csv", "columns", "to_datetime", "sort_values", "set_index">>,
                  Table("Date", f.header \ {"Date"}, Take(ParsedRows(f.rows, TRUE), p))) :
             p \in SortIndexers(ParsedRows(f.rows, TRUE))}

\* load_events on the file a path names; the Date column stays a column
EventsOutcomes(f) ==
    IF ~f.exists THEN {Outcome(FileNotFoundError, <<"exists">>, NoTable)}
    ELSE IF "Date" \notin f.header
    THEN {Outcome(KeyError, <<"exists", "read_csv", "to_datetime">>, NoTable)}
    ELSE IF \E i \in DOMAIN f.rows : f.rows[i].Date.fmt # "" /\ ~MatchesLoose(f.rows[i].Date)
    THEN {Outcome(ParseError, <<"exists", "read_csv", "to_datetime">>, NoTable)}
    ELSE {Outcome(NoError, <<"exists", "read_csv", "to_datetime", "sort_values">>,
                  Table("", f.header, Take(ParsedRows(f.rows, FALSE), p))) :
             p \in SortIndexers(ParsedRows(f.rows, FALSE))}

\* a call of load_brent_prices
LoadBrentPrices(path) ==
    /\ call.op = ""
    /\ call' = [NoCall EXCEPT !.op = "load_brent_prices", !.path = path]
    /\ \E o \in BrentPricesOutcomes(fs[path]) :
          /\ raised' = o.raised
          /\ steps' = o.steps
          /\ df' = o.df
    /\ UNCHANGED <<fs, series, summary>>

\* a call of load_events
LoadEvents(path) ==
    /\ call.op = ""
    /\ call' = [NoCall EXCEPT !.op = "load_events", !.path = path]
    /\ \E o \in EventsOutcomes(fs[path]) :
          /\ raised' = o.raised
          /\ steps' = o.steps
          /\ df' = o.df
    /\ UNCHANGED <<fs, series, summary>>

-----------------------------------------------------------------------------
(* The files of the loader specification.                                  *)

Paths == {"data.csv", "nonexistent_file.csv"}

\* Date cells as written in a file: three dates in the price format (one of
\* 1999, by the %y pivot), a day that does not exist, an ISO date, an empty cell
DateCells ==
    {DateCell("%d-%b-%y", 20, 1, 1), DateCell("%d-%b-%y", 20, 1, 2),
     DateCell("%d-%b-%y", 99, 12, 31), DateCell("%d-%b-%y", 20, 2, 30),
     DateCell("%Y-%m-%d", 2020, 1, 2), EmptyCell}

PriceCells == {Num(100), NaN}

Headers ==
    {{"Date", "Price"}, {"Date", "Price", "Volume"}, {"Date"}, {"Price"},
     {"Wrong", "Columns"}, {"Date", "Event_Name"}}

\* the rows a file of the given header can hold
RowsOf(header) ==
    [header -> DateCells \cup PriceCells] \cap
    {r \in [header -> DateCells \cup PriceCells] :
        \A c \in header : IF c = "Date" THEN r[c] \in DateCells
                          ELSE IF c = "Price" THEN r[c] \in PriceCells
                          ELSE r[c] = Num(100)}

LoaderFiles ==
    {CsvFile(h, rows) : h \in {{"Date", "Price"}}, rows \in SeqsUpTo(RowsOf({"Date", "Price"}), MaxRows)}
    \cup UNION {{CsvFile(h, rows) : rows \in SeqsUpTo(RowsOf(h), 1)} : h \in Headers}

InitLoader ==
    /\ \E f \in LoaderFiles :
          fs = [p \in Paths |-> IF p = "data.csv" THEN f ELSE NoFile]
    /\ call = NoCall
    /\ raised = NoError
    /\ steps = <<>>
    /\ df = NoTable
    /\ series = <<>>
    /\ summary = NoSummary

NextLoader ==
    \/ \E path \in Paths : LoadBrentPrices(path)
    \/ \E path \in Paths : LoadEvents(path)

SpecLoader == InitLoader /\ [][NextLoader]_vars

-----------------------------------------------------------------------------
(* The transforms of a series.                                             *)

\* the default window of calculate_rolling_volatility
DefaultWindow == 30
\* the shorter window of test_volatility_window_size
TestWindow == 10

\* Series.diff(): element i minus element i-1, the first element NaN
Diff(s) == [i \in 1..Len(s) |-> IF i = 1 THEN NaN ELSE FSub(s[i], s[i - 1])]

\* log returns that drop the first row instead of leaving it undefined
LogReturnsDropFirst(prices) ==
    [i \in 1..(IF Len(prices) = 0 THEN 0 ELSE Len(prices) - 1) |->
        FSub(NpLog(prices[i + 1]), NpLog(prices[i]))]

\* calculate_log_returns: np.log(prices).diff()
CalculateLogReturns(prices) == Diff([i \in 1..Len(prices) |-> NpLog(prices[i])])

RECURSIVE FFillAt(_, _)
\* Series.ffill(): the last value present at or before position i
FFillAt(s, i) ==
    IF NotNA(s[i]) THEN s[i] ELSE IF i = 1 THEN NaN ELSE FFillAt(s, i - 1)

\* calculate_simple_returns: prices.pct_change().  pandas before 3.0 forward
\* fills the prices first (fill_method='pad'); pandas 3.0 does not
CalculateSimpleReturns(prices, pad) ==
    LET data == [i \in 1..Len(prices) |-> IF pad THEN FFillAt(prices, i) ELSE prices[i]]
    IN [i \in 1..Len(prices) |-> IF i = 1 THEN NaN ELSE FRatioMinusOne(data[i], data[i - 1])]

RECURSIVE SumOver(_, _, _)
\* the sum of the numbers f[i] for i in lo..hi
SumOver(f, lo, hi) == IF lo > hi THEN 0 ELSE f[lo] + SumOver(f, lo + 1, hi)

\* the sample standard deviation (ddof = 1) of n >= 2 finite values of one
\* denominator: sqrt((n * sum x^2 - (sum x)^2) / (n * (n - 1) * den^2))
SampleStd(vals) ==
    LET n == Len(vals)
        s1 == SumOver([i \in 1..n |-> vals[i].num], 1, n)
        s2 == SumOver([i \in 1..n |-> vals[i].num * vals[i].num], 1, n)
    IN [k |-> "sqrt", num |-> n * s2 - s1 * s1, den |-> n * (n - 1) * vals[1].den * vals[1].den]

\* a rolling std that gives a value as soon as two observations are in the
\* window (min_periods = 2 instead of the window size)
RollingVolatilityMinPeriods(returns, window) ==
    LET vals == [i \in 1..Len(returns) |-> IF IsInf(returns[i]) THEN NaN ELSE returns[i]]
        Win(i) == SelectIdx(vals, {j \in DOMAIN vals : j > i - window /\ j <= i /\ NotNA(vals[j])}, 1)
    IN [i \in 1..Len(returns) |-> IF Len(Win(i)) >= 2 THEN SampleStd(Win(i)) ELSE NaN]

\* a rolling std that ignores the window it is given and uses the default
RollingVolatilityDefaultWindow(returns, window) ==
    LET vals == [i \in 1..Len(returns) |-> IF IsInf(returns[i]) THEN NaN ELSE returns[i]]
        Win(i) == SelectIdx(vals, {j \in DOMAIN vals : j > i - DefaultWindow /\ j <= i /\ NotNA(vals[j])}, 1)
    IN [i \in 1..Len(returns) |->
          IF Len(Win(i)) >= DefaultWindow THEN SampleStd(Win(i)) ELSE NaN]

\* calculate_rolling_volatility: returns.rolling(window=window).std().
\* rolling takes infinities as missing; min_periods is the window size; the
\* std has ddof = 1, so it needs more than one observation
CalculateRollingVolatility(returns, window) ==
    LET vals == [i \in 1..Len(returns) |-> IF IsInf(returns[i]) THEN NaN ELSE returns[i]]
        ddof == 1
        minp == window
        Win(i) == SelectIdx(vals, {j \in DOMAIN vals : j > i - window /\ j <= i /\ NotNA(vals[j])}, 1)
    IN [i \in 1..Len(returns) |->
          LET nobs == Len(Win(i))
          IN IF nobs >= minp /\ nobs > ddof THEN SampleStd(Win(i)) ELSE NaN]

\* a call of calculate_log_returns on the series in hand
CalcLogReturns ==
    /\ call.op = ""
    /\ call' = [NoCall EXCEPT !.op = "calculate_log_returns", !.input = series]
    /\ series' = CalculateLogReturns(series)
    /\ steps' = <<"log", "diff">>
    /\ UNCHANGED <<fs, raised, df, summary>>

\* a call of calculate_simple_returns on the series in hand
CalcSimpleReturns(pad) ==
    /\ call.op = ""
    /\ call' = [NoCall EXCEPT !.op = "calculate_simple_returns", !.input = series,
                              !.pad = pad]
    /\ series' = CalculateSimpleReturns(series, pad)
    /\ steps' = <<"pct_change">>
    /\ UNCHANGED <<fs, raised, df, summary>>

\* a call of calculate_rolling_volatility on the series in hand: a return
\* series given, or the log returns just computed
CalcRollingVolatility(window) ==
    /\ call.op \in {"", "calculate_log_returns"}
    /\ call' = [NoCall EXCEPT !.op = "calculate_rolling_volatility", !.input = series,
                              !.window = window]
    /\ series' = CalculateRollingVolatility(series, window)
    /\ steps' = <<"rolling", "std">>
    /\ UNCHANGED <<fs, raised, df, summary>>

\* the values of the generated sequences: prices, a missing price, a zero and
\* a negative price
SeriesValues == {Num(100), Num(105), Num(110), NaN, Num(0), Num(-5)}

\* the price 100, 110, 105, 100, ... of position i
PatternPrice(i) == Num(CASE i % 3 = 1 -> 100 [] i % 3 = 2 -> 110 [] OTHER -> 105)

\* the long sequences: the pattern prices, with at most one value missing
LongSeries ==
    {[i \in 1..n |-> IF i = hole THEN NaN ELSE PatternPrice(i)] :
        n \in (MaxLen + 1)..MaxDays, hole \in 0..MaxDays}

Windows == (1..MaxWindow) \cup {TestWindow, DefaultWindow}

InitSeries ==
    /\ fs = [p \in Paths |-> NoFile]
    /\ call = NoCall
    /\ raised = NoError
    /\ steps = <<>>
    /\ df = NoTable
    /\ series \in SeqsUpTo(SeriesValues, MaxLen) \cup LongSeries
    /\ summary = NoSummary

NextSeries ==
    \/ CalcLogReturns
    \/ \E pad \in BOOLEAN : CalcSimpleReturns(pad)
    \/ \E window \in Windows : CalcRollingVolatility(window)

SpecSeries == InitSeries /\ [][NextSeries]_vars

-----------------------------------------------------------------------------
(* The date range filter, prepare_modeling_data and the summary.           *)

\* df[name]: the column as a series
Column(table, name) == [i \in 1..Len(table.rows) |-> table.rows[i][name]]

\* df[name] = values: the table with the column added (or replaced)
WithColumn(table, name, values) ==
    Table(table.index, table.cols \cup {name},
          [i \in 1..Len(table.rows) |->
              [c \in DOMAIN table.rows[i] \cup {name} |->
                  IF c = name THEN values[i] ELSE table.rows[i][c]]])

\* df[mask]: the rows at the positions of the mask, in their order
Mask(table, mask) == Table(table.index, table.cols, SelectIdx(table.rows, mask, 1))

\* df.index >= t and df.index <= t, as the positions at which they hold
IndexGE(table, t) == {i \in DOMAIN table.rows : TsGE(table.rows[i].Date, t)}
IndexLE(table, t) == {i \in DOMAIN table.rows : TsLE(table.rows[i].Date, t)}

\* a filter whose end bound is exclusive
FilterDateRangeExclusive(table, start, end) ==
    LET a == IF Truthy(start) THEN Mask(table, IndexGE(table, Timestamp(start))) ELSE table
    IN IF Truthy(end)
       THEN Mask(a, {i \in DOMAIN a.rows : TsLT(a.rows[i].Date, Timestamp(end))}) ELSE a

\* filter_date_range: each bound is applied only when it is given (truthy)
FilterDateRange(table, start, end) ==
    LET a == IF Truthy(start) THEN Mask(table, IndexGE(table, Timestamp(start))) ELSE table
    IN IF Truthy(end) THEN Mask(a, IndexLE(a, Timestamp(end))) ELSE a

\* the derived columns of prepare_modeling_data
WithReturns(table, pad) ==
    LET a == WithColumn(table, "Log_Returns", CalculateLogReturns(Column(table, "Price")))
        b == WithColumn(a, "Simple_Returns",
                        CalculateSimpleReturns(Column(table, "Price"), pad))
    IN WithColumn(b, "Volatility_30d",
                  CalculateRollingVolatility(Column(a, "Log_Returns"), DefaultWindow))

\* derived columns computed on the whole file, before the date filter is applied
WithReturnsOrFilter(table, start, end, flag, pad) ==
    LET a == IF flag THEN WithReturns(table, pad) ELSE table
    IN IF Truthy(start) \/ Truthy(end) THEN FilterDateRange(a, start, end) ELSE a

\* lines 192-198 of prepare_modeling_data on the loaded table: the filter,
\* when a bound is given, and then the derived columns
FilterThenReturns(table, start, end, flag, pad) ==
    LET a == IF Truthy(start) \/ Truthy(end) THEN FilterDateRange(table, start, end)
             ELSE table
    IN IF flag THEN WithReturns(a, pad) ELSE a

\* the values of a series that are present (skipna)
Present(s) == SelectIdx(s, {i \in DOMAIN s : NotNA(s[i])}, 1)

\* Series.mean()
Mean(s) ==
    LET v == Present(s)
    IN IF Len(v) = 0 THEN NaN
       ELSE IF \E i \in DOMAIN v : IsInf(v[i])
       THEN (IF \E i, j \in DOMAIN v : IsInf(v[i]) /\ IsInf(v[j]) /\ v[i].k # v[j].k
             THEN NaN
             ELSE v[CHOOSE i \in DOMAIN v : IsInf(v[i])])
       ELSE Fin(SumOver([i \in DOMAIN v |-> v[i].num], 1, Len(v)), Len(v) * v[1].den)

\* Series.std(): the sample standard deviation of the values present
Std(s) ==
    LET v == Present(s)
    IN IF Len(v) < 2 \/ (\E i \in DOMAIN v : IsInf(v[i])) THEN NaN ELSE SampleStd(v)

\* a <= b on floats that are present
FloatLE(a, b) ==
    \/ a.k = "-inf"
    \/ b.k = "+inf"
    \/ a.k = "fin" /\ b.k = "fin" /\ a.num <= b.num

\* Series.min() and Series.max()
Min(s) ==
    LET v == Present(s)
    IN IF Len(v) = 0 THEN NaN
       ELSE v[CHOOSE i \in DOMAIN v : \A j \in DOMAIN v : FloatLE(v[i], v[j])]
Max(s) ==
    LET v == Present(s)
    IN IF Len(v) = 0 THEN NaN
       ELSE v[CHOOSE i \in DOMAIN v : \A j \in DOMAIN v : FloatLE(v[j], v[i])]

\* the k-th smallest of the values v
Kth(v, k) ==
    v[CHOOSE i \in DOMAIN v :
        /\ Cardinality({j \in DOMAIN v : ~FloatLE(v[i], v[j])}) < k
        /\ Cardinality({j \in DOMAIN v : FloatLE(v[j], v[i])}) >= k]

\* Series.median()
Median(s) ==
    LET v == Present(s)
        n == Len(v)
    IN IF n = 0 THEN NaN
       ELSE IF \E i \in DOMAIN v : IsInf(v[i]) THEN Kth(v, (n + 1) \div 2)
       ELSE IF n % 2 = 1 THEN Kth(v, (n + 1) \div 2)
       ELSE Fin(Kth(v, n \div 2).num + Kth(v, n \div 2 + 1).num, 2 * v[1].den)

\* Series.skew() and Series.kurtosis(): NaN below 3 and 4 observations; the
\* value of the moment is not computed, only that it is of n observations
Moment(s, name, least) ==
    LET v == Present(s)
    IN IF Len(v) < least THEN NaN ELSE [k |-> name, num |-> Len(v), den |-> 1]

\* df.index.min() and df.index.max(): NaT is skipped
IndexMin(table) ==
    LET d == {r.Date : r \in {x \in Range(table.rows) : ~IsNaT(x.Date)}}
    IN IF d = {} THEN NaT ELSE CHOOSE t \in d : \A u \in d : TsLE(t, u)
IndexMax(table) ==
    LET d == {r.Date : r \in {x \in Range(table.rows) : ~IsNaT(x.Date)}}
    IN IF d = {} THEN NaT ELSE CHOOSE t \in d : \A u \in d : TsLE(u, t)

\* a summary that looks for the returns under a name no table has
SummaryKeysWrongName(table) ==
    {"n_observations", "date_range", "price_stats", "missing_values"}
    \cup (IF "LogReturns" \in table.cols THEN {"returns_stats"} ELSE {})

\* the keys of the dictionary get_data_summary returns
SummaryKeys(table) ==
    {"n_observations", "date_range", "price_stats", "missing_values"}
    \cup (IF "Log_Returns" \in table.cols THEN {"returns_stats"} ELSE {})

\* len(df)
RowCount(table) == Len(table.rows)

\* get_data_summary on a table with a Price column
GetDataSummary(table) ==
    [key \in SummaryKeys(table) |->
        CASE key = "n_observations" -> RowCount(table)
          [] key = "date_range" -> [start |-> IndexMin(table), end |-> IndexMax(table)]
          [] key = "price_stats" ->
                LET price == Column(table, "Price")
                IN [mean |-> Mean(price), median |-> Median(price), std |-> Std(price),
                    min |-> Min(price), max |-> Max(price)]
          [] key = "missing_values" ->
                Cardinality({i \in DOMAIN table.rows : IsNA(table.rows[i].Price)})
          [] key = "returns_stats" ->
                LET r == Column(table, "Log_Returns")
                IN [mean |-> Mean(r), std |-> Std(r), skewness |-> Moment(r, "skew", 3),
                    kurtosis |-> Moment(r, "kurt", 4)]]

-----------------------------------------------------------------------------
(* The calls of the pipeline.                                              *)

\* the window of the volatility column in test_full_data_preparation
IntegrationWindow == 3

\* a call of prepare_modeling_data: the load, whose failure ends the call, then
\* the filter and the derived columns
PrepareModelingData(path, start, end, flag, pad) ==
    /\ call.op = ""
    /\ call' = [NoCall EXCEPT !.op = "prepare_modeling_data", !.path = path,
                              !.start = start, !.end = end, !.flag = flag, !.pad = pad]
    /\ \E o \in BrentPricesOutcomes(fs[path]) :
          /\ raised' = o.raised
          /\ IF o.raised # NoError
             THEN /\ steps' = o.steps
                  /\ df' = NoTable
             ELSE /\ steps' = o.steps
                       \o (IF Truthy(start) \/ Truthy(end) THEN <<"filter_date_range">>
                           ELSE <<>>)
                       \o (IF flag THEN <<"calculate_log_returns", "calculate_simple_returns",
                                          "calculate_rolling_volatility">>
                           ELSE <<>>)
                  /\ df' = FilterThenReturns(o.df, start, end, flag, pad)
    /\ UNCHANGED <<fs, series, summary>>

\* the caller adds the derived columns to a loaded table itself, as
\* test_full_data_preparation does
AddReturns ==
    /\ call.op = "load_brent_prices"
    /\ raised = NoError
    /\ call' = [NoCall EXCEPT !.op = "add_returns", !.table = df,
                              !.window = IntegrationWindow]
    /\ LET a == WithColumn(df, "Log_Returns", CalculateLogReturns(Column(df, "Price")))
       IN df' = WithColumn(a, "Volatility",
                           CalculateRollingVolatility(Column(a, "Log_Returns"),
                                                      IntegrationWindow))
    /\ steps' = <<"calculate_log_returns", "calculate_rolling_volatility">>
    /\ UNCHANGED <<fs, raised, series, summary>>

\* a call of filter_date_range on the table in hand
CallFilterDateRange(start, end) ==
    /\ call.op \in {"load_brent_prices", "add_returns"}
    /\ raised = NoError
    /\ call' = [NoCall EXCEPT !.op = "filter_date_range", !.table = df,
                              !.start = start, !.end = end]
    /\ df' = FilterDateRange(df, start, end)
    /\ steps' = (IF Truthy(start) THEN <<"start">> ELSE <<>>)
                \o (IF Truthy(end) THEN <<"end">> ELSE <<>>)
    /\ UNCHANGED <<fs, raised, series, summary>>

\* a call of get_data_summary on the table in hand
CallGetDataSummary ==
    /\ call.op \in {"load_brent_prices", "add_returns", "filter_date_range",
                    "prepare_modeling_data"}
    /\ raised = NoError
    /\ "Price" \in df.cols
    /\ call' = [NoCall EXCEPT !.op = "get_data_summary", !.table = df]
    /\ summary' = GetDataSummary(df)
    /\ steps' = <<"summary">>
    /\ UNCHANGED <<fs, raised, df, series>>

\* the date text of day i of 2020, counted from 1 January, in the price format
DayCell(i) ==
    IF i <= 31 THEN DateCell("%d-%b-%y", 20, 1, i) ELSE DateCell("%d-%b-%y", 20, 2, i - 31)

\* a price file of n consecutive days with the pattern prices, the price of
\* day hole missing, written in ascending or in descending order of date
DailyFile(n, hole, descending) ==
    CsvFile({"Date", "Price"},
            [i \in 1..n |->
                LET day == IF descending THEN n + 1 - i ELSE i
                IN [c \in {"Date", "Price"} |->
                      IF c = "Date" THEN DayCell(day)
                      ELSE IF day = hole THEN NaN ELSE PatternPrice(day)]])

DailyFiles ==
    {DailyFile(n, hole, descending) :
        n \in 0..MaxDays, hole \in {0, 2, 4}, descending \in BOOLEAN}

\* the dates of the small files of the pipeline: equal dates, a date of 1999
\* and an empty cell among them
ValidDateCells == {c \in DateCells : c.fmt = "" \/ MatchesStrict(c)}

\* rows of a small file of the pipeline
MaxTieRows == 2

TieFiles ==
    {CsvFile({"Date", "Price"}, rows) :
        rows \in SeqsUpTo({r \in RowsOf({"Date", "Price"}) : r.Date \in ValidDateCells},
                          MaxTieRows)}

\* the bounds given to the filter: none, the empty string, a day inside the
\* data, a day after all of it, a day between 1999 and 2020
StartBounds ==
    {NoneBound, EmptyCell, DateCell("%Y-%m-%d", 2020, 1, 2),
     DateCell("%Y-%m-%d", 2020, 3, 1)}
EndBounds ==
    {NoneBound, DateCell("%Y-%m-%d", 2020, 1, 2), DateCell("%Y-%m-%d", 2019, 6, 1)}

InitPipeline ==
    /\ \E f \in DailyFiles \cup TieFiles :
          fs = [p \in Paths |-> IF p = "data.csv" THEN f ELSE NoFile]
    /\ call = NoCall
    /\ raised = NoError
    /\ steps = <<>>
    /\ df = NoTable
    /\ series = <<>>
    /\ summary = NoSummary

NextPipeline ==
    \/ \E path \in Paths : LoadBrentPrices(path)
    \/ \E path \in Paths, start \in StartBounds, end \in EndBounds, flag \in BOOLEAN :
          \E pad \in (IF flag THEN BOOLEAN ELSE {FALSE}) :
             PrepareModelingData(path, start, end, flag, pad)
    \/ AddReturns
    \/ \E start \in StartBounds, end \in EndBounds : CallFilterDateRange(start, end)
    \/ CallGetDataSummary

SpecPipeline == InitPipeline /\ [][NextPipeline]_vars

-----------------------------------------------------------------------------
(* The whole module: any of the files or sequences, and every call.        *)

Init == InitLoader \/ InitSeries \/ InitPipeline

Next == NextLoader \/ NextSeries \/ NextPipeline

Spec == Init /\ [][Next]_vars

-----------------------------------------------------------------------------
(* The properties of the loaders, under SpecLoader.                        *)

\* the rows of the file of the last call, their dates parsed in the price format
LoadedInput == ParsedRows(fs[call.path].rows, TRUE)

LoadedOk == call.op = "load_brent_prices" /\ raised = NoError

\* how many times the row r occurs in the rows
Occurrences(rows, r) == Cardinality({i \in DOMAIN rows : rows[i] = r})

\* C1: the table load_brent_prices returns for a file whose dates all match
\* DD-Mon-YY is sorted non-decreasing by date, whatever the order in the file
C1_SortedByDate ==
    (LoadedOk /\ \A i \in DOMAIN fs[call.path].rows : MatchesStrict(fs[call.path].rows[i].Date))
    => \A i \in 1..(Len(df.rows) - 1) : TsLE(df.rows[i].Date, df.rows[i + 1].Date)

\* C1 witness: a file of three rows written out of order is loaded, and its
\* first date comes out before its last
C1_Witness ==
    /\ LoadedOk
    /\ Len(df.rows) = 3
    /\ \A i \in DOMAIN fs[call.path].rows : MatchesStrict(fs[call.path].rows[i].Date)
    /\ TsLT(LoadedInput[2].Date, LoadedInput[1].Date)
    /\ TsLT(df.rows[1].Date, df.rows[3].Date)

\* C2: a loader called with a path that does not exist raises
\* FileNotFoundError after the existence check alone (nothing is read or
\* parsed) and returns no table
C2_MissingPathFails ==
    (call.op \in {"load_brent_prices", "load_events"} /\ ~fs[call.path].exists)
    => /\ raised = FileNotFoundError
       /\ steps = <<"exists">>
       /\ df = NoTable

\* C2 witness: load_brent_prices was called with the path that does not exist
C2_Witness ==
    /\ call.op = "load_brent_prices"
    /\ call.path = "nonexistent_file.csv"
    /\ raised = FileNotFoundError

\* C3: load_brent_prices on an existing file whose header lacks Date or Price
\* raises the ValueError of the column check, returns no table, and has not
\* parsed any date
C3_MissingColumnFails ==
    (/\ call.op = "load_brent_prices"
     /\ fs[call.path].exists
     /\ ("Date" \notin fs[call.path].header \/ "Price" \notin fs[call.path].header))
    => /\ raised = SchemaError
       /\ df = NoTable
       /\ "to_datetime" \notin Range(steps)

\* C3 witness: the file has a Date column holding a date that does not match
\* the format and no Price column, and the call ended in the column error
C3_Witness ==
    /\ call.op = "load_brent_prices"
    /\ fs[call.path].header = {"Date"}
    /\ \E i \in DOMAIN fs[call.path].rows :
          fs[call.path].rows[i].Date.fmt # "" /\ ~MatchesStrict(fs[call.path].rows[i].Date)
    /\ raised = SchemaError

\* the one indexer of a stable sort: rows of equal date in their file order
StableIndexer(rows) ==
    CHOOSE p \in SortIndexers(rows) :
        \A i, j \in DOMAIN rows :
            (i < j /\ rows[p[i]].Date = rows[p[j]].Date) => p[i] < p[j]

-----------------------------------------------------------------------------
(* The properties of the transforms, under SpecSeries.                     *)

\* a price that is present and positive
PositivePrice(x) == x.k = "fin" /\ x.num > 0

\* the number of undefined positions of a series
NaCount(s) == Cardinality({i \in DOMAIN s : IsNA(s[i])})

\* C4: log returns and simple returns have the length of the prices and an
\* undefined first element; after two positive prices the log return is
\* ln(prices[i]) - ln(prices[i-1])
C4_ReturnsShape ==
    /\ call.op \in {"calculate_log_returns", "calculate_simple_returns"}
       => /\ Len(series) = Len(call.input)
          /\ Len(series) > 0 => IsNA(series[1])
    /\ call.op = "calculate_log_returns"
       => \A i \in 2..Len(call.input) :
             (PositivePrice(call.input[i]) /\ PositivePrice(call.input[i - 1]))
             => /\ series[i].k = "fin"
                /\ series[i].den = NpLog(call.input[i]).den
                /\ series[i].num = NpLog(call.input[i]).num - NpLog(call.input[i - 1]).num

\* C4 witness: the log returns of the prices 100, 110, 105 are undefined,
\* 0.095 (ln 1.1) and -0.046 (ln 105/110)
C4_Witness ==
    /\ call.op = "calculate_log_returns"
    /\ call.input = <<Num(100), Num(110), Num(105)>>
    /\ series = <<NaN, Fin(95, 1000), Fin(-46, 1000)>>

RollingCall == call.op = "calculate_rolling_volatility"

\* the positions of the window of size w that ends at position i (from 1)
WindowAt(i, w) == (i - w + 1)..i

\* C5 as stated: for every window size w the output has the length of the
\* input, and its position i (from 1) is defined if and only if i >= w and
\* every value of the window ending at i is defined
C5_DefinedIffFullWindow ==
    RollingCall =>
        /\ Len(series) = Len(call.input)
        /\ \A i \in DOMAIN series :
              NotNA(series[i]) <=>
                  /\ i >= call.window
                  /\ \A j \in WindowAt(i, call.window) : NotNA(call.input[j])

\* C5 as amended: the output has the length of the input; for a window size
\* w >= 2 position i is defined if and only if i >= w and every value of the
\* window ending at i is defined and finite; for w = 1 no position is defined
C5_DefinedIffFiniteWindow ==
    RollingCall =>
        /\ Len(series) = Len(call.input)
        /\ call.window >= 2 =>
              \A i \in DOMAIN series :
                  NotNA(series[i]) <=>
                      /\ i >= call.window
                      /\ \A j \in WindowAt(i, call.window) :
                            NotNA(call.input[j]) /\ ~IsInf(call.input[j])
        /\ call.window = 1 => \A i \in DOMAIN series : IsNA(series[i])

\* C5 witness: with a window of 2 one position is defined, and a later
\* position is undefined because of one undefined value in its window
C5_Witness ==
    /\ RollingCall
    /\ call.window = 2
    /\ \E i, j \in DOMAIN series :
          /\ i < j
          /\ NotNA(series[i])
          /\ IsNA(series[j])
          /\ IsNA(call.input[j])
          /\ NotNA(call.input[j - 1])

\* the volatility of the same input with the window of 10
WithTestWindow == CalculateRollingVolatility(call.input, TestWindow)

\* C6 as stated: the window of 30 leaves strictly more positions undefined
\* than the window of 10 on the same input
C6_StrictlyMoreUndefined ==
    (RollingCall /\ call.window = DefaultWindow)
    => NaCount(series) > NaCount(WithTestWindow)

\* C6 as amended: the window of 30 never leaves fewer positions undefined than
\* the window of 10, and leaves strictly more exactly when the window of 10
\* gives a defined value somewhere
C6_MoreUndefinedWhenDefined ==
    (RollingCall /\ call.window = DefaultWindow)
    => /\ NaCount(series) >= NaCount(WithTestWindow)
       /\ (NaCount(series) > NaCount(WithTestWindow))
          <=> (\E i \in DOMAIN call.input : NotNA(WithTestWindow[i]))

\* C6 witness: the window of 30 gives a defined value, and still leaves more
\* positions undefined than the window of 10
C6_Witness ==
    /\ RollingCall
    /\ call.window = DefaultWindow
    /\ \E i \in DOMAIN series : NotNA(series[i])
    /\ NaCount(series) > NaCount(WithTestWindow)

-----------------------------------------------------------------------------
(* The properties of the filter, the summary and prepare_modeling_data,    *)
(* under SpecPipeline.                                                     *)

\* a bound that was not given
Omitted(b) == b.fmt \in {"None", ""}

\* start <= d <= end, an omitted bound leaving its side unbounded
InRange(d, start, end) ==
    /\ Omitted(start) \/ (~IsNaT(d) /\ Ord(d) >= ToOrdinal(start.y, start.m, start.d))
    /\ Omitted(end) \/ (~IsNaT(d) /\ Ord(d) <= ToOrdinal(end.y, end.m, end.d))

\* C7: filter_date_range returns exactly the rows whose date lies between the
\* bounds, both inclusive and an omitted bound unbounded, in their order in
\* the input; it raises nothing, and returns no rows when no date is in range
C7_FilterIsInclusiveRange ==
    call.op = "filter_date_range" =>
        /\ raised = NoError
        /\ df.cols = call.table.cols
        /\ df.rows = SelectIdx(call.table.rows,
                               {i \in DOMAIN call.table.rows :
                                   InRange(call.table.rows[i].Date, call.start, call.end)},
                               1)

\* C7 witness: both bounds are given, a row dated on the end bound and a row
\* dated on the start bound are kept, and other rows are dropped
C7_Witness ==
    /\ call.op = "filter_date_range"
    /\ ~Omitted(call.start)
    /\ ~Omitted(call.end)
    /\ Len(df.rows) > 0
    /\ Len(df.rows) < Len(call.table.rows)
    /\ df.rows[Len(df.rows)].Date = Timestamp(call.end)
    /\ df.rows[1].Date = Timestamp(call.start)

\* C8: the summary has returns_stats, with mean, std, skewness and kurtosis,
\* if and only if the table has a Log_Returns column, and n_observations is
\* the number of rows of the table
C8_SummaryKeys ==
    call.op = "get_data_summary" =>
        /\ "returns_stats" \in DOMAIN summary <=> "Log_Returns" \in call.table.cols
        /\ "returns_stats" \in DOMAIN summary =>
              DOMAIN summary["returns_stats"] = {"mean", "std", "skewness", "kurtosis"}
        /\ summary["n_observations"] = Len(call.table.rows)

\* C8 witness: the summary of a table of five days with derived columns, from
\* which a filter removed the first day: four observations, with returns_stats
C8_Witness ==
    /\ call.op = "get_data_summary"
    /\ Len(fs["data.csv"].rows) = 5
    /\ "Volatility" \in call.table.cols
    /\ summary["n_observations"] = 4
    /\ "returns_stats" \in DOMAIN summary
    /\ NotNA(call.table.rows[1]["Log_Returns"])

PreparedOk == call.op = "prepare_modeling_data" /\ raised = NoError

DerivedColumns == {"Log_Returns", "Simple_Returns", "Volatility_30d"}

\* the position in the steps of the last call at which a step was taken, 0 if
\* it was not
StepAt(name) == IF \E i \in DOMAIN steps : steps[i] = name
                THEN CHOOSE i \in DOMAIN steps : steps[i] = name ELSE 0

\* C10: prepare_modeling_data filters before it derives: with
\* calculate_returns the first row of a non-empty result has undefined
\* Log_Returns and Simple_Returns and the first 30 rows have undefined
\* Volatility_30d; without it no derived column is added
C10_FilterBeforeReturns ==
    PreparedOk =>
        /\ call.flag =>
              /\ DerivedColumns \subseteq df.cols
              /\ StepAt("filter_date_range") < StepAt("calculate_log_returns")
              /\ Len(df.rows) > 0 =>
                    /\ IsNA(df.rows[1]["Log_Returns"])
                    /\ IsNA(df.rows[1]["Simple_Returns"])
              /\ \A i \in DOMAIN df.rows :
                    i <= DefaultWindow => IsNA(df.rows[i]["Volatility_30d"])
        /\ ~call.flag => df.cols \cap DerivedColumns = {}

\* C10 witness: the file holds a price dated before the start bound, the
\* result starts on the start bound with undefined returns, and its row 31 is
\* the first with a volatility
C10_Witness ==
    /\ PreparedOk
    /\ call.flag
    /\ ~Omitted(call.start)
    /\ \E i \in DOMAIN fs[call.path].rows :
          /\ MatchesStrict(fs[call.path].rows[i].Date)
          /\ TsLT(ToDatetimeStrict(fs[call.path].rows[i].Date), Timestamp(call.start))
          /\ NotNA(fs[call.path].rows[i].Price)
    /\ Len(df.rows) > DefaultWindow
    /\ df.rows[1].Date = Timestamp(call.start)
    /\ IsNA(df.rows[1]["Log_Returns"])
    /\ NotNA(df.rows[DefaultWindow + 1]["Volatility_30d"])

====
